---- MODULE Spec2Model ----
(***************************************************************************)
(* Model of src/frontend/src/App.js: the React component App, its four     *)
(* asynchronous handlers (displayUsers, addUser, deleteUser,               *)
(* filterUsersByRole) and the field decryption pipeline                    *)
(* (pemToArrayBuffer, importPrivateKey, decryptWithPrivateKey).            *)
(*                                                                         *)
(* The JavaScript event loop is single threaded: every action below is one *)
(* run-to-completion turn, i.e. the code that runs from one event (a       *)
(* click, a settled fetch, a settled body read, a settled WebCrypto        *)
(* operation) up to the next await.  The environment chooses which event   *)
(* comes next and what the server answers.                                 *)
(*                                                                         *)
(* Not modelled: the rendering of the table (lines 232-360), and the RSA   *)
(* arithmetic itself: a ciphertext records whether it is base64, whether   *)
(* it is an intact encryption under the configured key pair, and the bytes *)
(* that were encrypted.                                                    *)
(***************************************************************************)
EXTENDS Naturals, Sequences, FiniteSets

\* Bounds of the model: button clicks per run, records received per run (all
\* responses together), and Filter clicks per run in SpecRace.
MaxClicks == 1
MaxRecords == 1
MaxFilters == 2

VARIABLES
    users,          \* useState([]) line 70: the visible users set
    newUser,        \* useState({name,email,role}) line 71
    roleFilter,     \* useState("") line 72
    deleteUserId,   \* useState("") line 73
    privateKeyPEM,  \* process.env.REACT_APP_PRIVATE_KEY, line 119
    tasks,          \* the invocations of the async handlers, in call order
    promises,       \* the promises returned by decryptWithPrivateKey, in call order
    imports,        \* number of calls of importPrivateKey so far
    setBy           \* the invocation whose setUsers call was the last one (0: none)

vars == <<users, newUser, roleFilter, deleteUserId, privateKeyPEM, tasks,
          promises, imports, setBy>>

Fields == {"id", "name", "email", "role"}

(***************************************************************************)
(* Values.  A string is the sequence of its code points; bytes are         *)
(* numbers 0..255.                                                         *)
(***************************************************************************)
ReplacementChar == 65533
ByteOrderMark == 65279

\* What the configuration can hold: a PKCS#8 RSA key in PEM, nothing at all,
\* a PEM whose payload is not base64, a PEM whose payload is not a PKCS#8 key.
KeyConfigs == {"valid", "absent", "badPem", "notPkcs8"}

\* A ciphertext string as the server sends it: whether it is base64 at all,
\* whether the blob it encodes is an intact RSA-OAEP encryption under the
\* configured key pair, and the bytes that were encrypted.
Ct(b64, intact, bytes) == [b64 |-> b64, intact |-> intact, bytes |-> bytes]

Good(bytes) == Ct(TRUE, TRUE, bytes)
BadBase64 == Ct(FALSE, FALSE, <<>>)
Tampered == Ct(TRUE, FALSE, <<66>>)

\* The encrypted records the server can return.
E1 == [id |-> Good(<<49>>), name |-> Good(<<65>>),
       email |-> Good(<<97>>), role |-> Good(<<120>>)]
E2 == [id |-> Good(<<50>>), name |-> Good(<<195, 169>>),
       email |-> Good(<<226, 130, 172>>), role |-> Good(<<239, 187, 191, 121>>)]
E3 == [id |-> Good(<<226, 130>>), name |-> BadBase64,
       email |-> Tampered, role |-> Good(<<65, 255>>)]

EncryptedRecords == {E1, E2, E3}

\* The JSON bodies of an ok answer of the list and filter endpoints.
Bodies ==
    {<<>>} \cup {<<r>> : r \in EncryptedRecords}
           \cup {b \in {<<r, s>> : r \in EncryptedRecords, s \in EncryptedRecords} :
                     b[1] # b[2]}

Array(items) == [kind |-> "array", items |-> items]
Object == [kind |-> "object", items |-> <<>>]
Null == [kind |-> "null", items |-> <<>>]

JsonValues == {Array(b) : b \in Bodies} \cup {Object, Null}

\* What the user types: the text an input holds after an onChange event.
NewUserInputs == [name : {"", "n"}, email : {"", "e"}, role : {"", "admin"}]
NewUserFields == {"name", "email", "role"}
TextOf(field) == {r[field] : r \in NewUserInputs}
RoleInputs == {"", "admin", "user"}
UserIdInputs == {"", "7"}

Ok(v) == [ok |-> TRUE, v |-> v, err |-> ""]
Throw(e) == [ok |-> FALSE, v |-> <<>>, err |-> e]

(***************************************************************************)
(* The decryption pipeline, lines 90-133.                                  *)
(***************************************************************************)

\* Lines 91-99.  pem.replace(...) on an absent key (undefined) throws a
\* TypeError; atob throws InvalidCharacterError on a payload that is not
\* base64; otherwise the DER bytes, of which the model keeps only whether
\* they are a PKCS#8 private key.
pemToArrayBuffer(pem) ==
    IF pem = "absent" THEN Throw("TypeError: reading 'replace' of undefined")
    ELSE IF pem = "badPem" THEN Throw("InvalidCharacterError: atob(pem)")
    ELSE Ok(pem)

\* Lines 102-115.  An async function: a throw of pemToArrayBuffer becomes a
\* rejection; crypto.subtle.importKey("pkcs8", ...) rejects with DataError
\* when the bytes are not a PKCS#8 key.
importPrivateKey(pemKey) ==
    LET binaryDer == pemToArrayBuffer(pemKey)
    IN  IF ~binaryDer.ok THEN binaryDer
        ELSE IF binaryDer.v = "notPkcs8" THEN Throw("DataError: importKey")
        ELSE Ok("CryptoKey")

\* Lines 121-123: atob(encryptedData) and the copy into a Uint8Array.
atob(encryptedData) ==
    IF encryptedData.b64 THEN Ok(encryptedData)
    ELSE Throw("InvalidCharacterError: atob(encryptedData)")

\* Lines 125-129: crypto.subtle.decrypt({name: "RSA-OAEP"}, key, data) rejects
\* with OperationError unless data is an intact encryption under the key.
SubtleDecrypt(privateKey, decodedData) ==
    IF decodedData.intact THEN Ok(decodedData.bytes)
    ELSE Throw("OperationError: decrypt")

\* Lines 131-132: new TextDecoder() is the UTF-8 decoder in its default
\* mode: not fatal, and the byte order mark is not kept.  Utf8Decode is the
\* decoder's state machine: needed is the number of continuation bytes the
\* sequence in progress still lacks, cp the code point built so far, lower and
\* upper the range the next continuation byte must lie in (narrower after the
\* lead bytes E0, ED, F0 and F4, which excludes overlong forms, surrogates and
\* code points above U+10FFFF).  A byte that cannot start a sequence gives
\* U+FFFD; a byte that cannot continue the sequence in progress gives one
\* U+FFFD for what was read of that sequence and is then read again as a
\* first byte; input that ends inside a sequence gives one U+FFFD.
RECURSIVE Utf8Decode(_, _, _, _, _)
Utf8Decode(bytes, needed, cp, lower, upper) ==
    IF bytes = <<>>
        THEN IF needed = 0 THEN <<>> ELSE <<ReplacementChar>>
    ELSE LET b == bytes[1]
             rest == Tail(bytes)
         IN  IF needed = 0
             THEN IF b <= 127
                      THEN <<b>> \o Utf8Decode(rest, 0, 0, 128, 191)
                  ELSE IF b >= 194 /\ b <= 223
                      THEN Utf8Decode(rest, 1, b - 192, 128, 191)
                  ELSE IF b >= 224 /\ b <= 239
                      THEN Utf8Decode(rest, 2, b - 224,
                                      IF b = 224 THEN 160 ELSE 128,
                                      IF b = 237 THEN 159 ELSE 191)
                  ELSE IF b >= 240 /\ b <= 244
                      THEN Utf8Decode(rest, 3, b - 240,
                                      IF b = 240 THEN 144 ELSE 128,
                                      IF b = 244 THEN 143 ELSE 191)
                  ELSE <<ReplacementChar>> \o Utf8Decode(rest, 0, 0, 128, 191)
             ELSE IF b < lower \/ b > upper
                      THEN <<ReplacementChar>> \o Utf8Decode(bytes, 0, 0, 128, 191)
                  ELSE IF needed = 1
                      THEN <<cp * 64 + (b - 128)>>
                           \o Utf8Decode(rest, 0, 0, 128, 191)
                  ELSE Utf8Decode(rest, needed - 1, cp * 64 + (b - 128), 128, 191)

\* decoder.decode(decrypted): the decoded code points without a leading
\* byte order mark (U+FEFF, the bytes EF BB BF).
TextDecode(bytes) ==
    LET decoded == Utf8Decode(bytes, 0, 0, 128, 191)
    IN  IF decoded # <<>> /\ decoded[1] = ByteOrderMark
        THEN Tail(decoded) ELSE decoded

\* Whether bytes are well-formed UTF-8: what a strict (fatal) decoder would
\* accept.  Same state machine, with every U+FFFD case an error.
RECURSIVE WellFormed(_, _, _, _)
WellFormed(bytes, needed, lower, upper) ==
    IF bytes = <<>> THEN needed = 0
    ELSE LET b == bytes[1]
             rest == Tail(bytes)
         IN  IF needed = 0
             THEN IF b <= 127 THEN WellFormed(rest, 0, 128, 191)
                  ELSE IF b >= 194 /\ b <= 223 THEN WellFormed(rest, 1, 128, 191)
                  ELSE IF b >= 224 /\ b <= 239
                      THEN WellFormed(rest, 2, IF b = 224 THEN 160 ELSE 128,
                                      IF b = 237 THEN 159 ELSE 191)
                  ELSE IF b >= 240 /\ b <= 244
                      THEN WellFormed(rest, 3, IF b = 240 THEN 144 ELSE 128,
                                      IF b = 244 THEN 143 ELSE 191)
                  ELSE FALSE
             ELSE b >= lower /\ b <= upper /\ WellFormed(rest, needed - 1, 128, 191)

ValidUtf8(bytes) == WellFormed(bytes, 0, 128, 191)

\* Line 118-120, up to the first await: decryptWithPrivateKey(encryptedData)
\* calls importPrivateKey and returns a pending promise.  by is the handler
\* invocation that made the call.
PendingDecryption(encryptedData, by) ==
    [ct |-> encryptedData, pc |-> "import", val |-> <<>>, err |-> "", by |-> by]

\* Line 120 onwards, once the import has settled: a failed import rejects the
\* promise; otherwise atob runs (a throw rejects) and subtle.decrypt is called.
AfterImport(p, pem) ==
    LET privateKey == importPrivateKey(pem)
        decodedData == atob(p.ct)
    IN  IF ~privateKey.ok
            THEN [p EXCEPT !.pc = "rejected", !.err = privateKey.err]
        ELSE IF ~decodedData.ok
            THEN [p EXCEPT !.pc = "rejected", !.err = decodedData.err]
        ELSE [p EXCEPT !.pc = "decrypt"]

\* Lines 125-132, once subtle.decrypt has settled.
AfterDecrypt(p, pem) ==
    LET decrypted == SubtleDecrypt(importPrivateKey(pem).v, atob(p.ct).v)
    IN  IF ~decrypted.ok
            THEN [p EXCEPT !.pc = "rejected", !.err = decrypted.err]
        ELSE [p EXCEPT !.pc = "fulfilled", !.val = TextDecode(decrypted.v)]

(***************************************************************************)
(* Handler invocations.  pc is the await the invocation is suspended at:   *)
(* "fetch" (await fetch(...)), "json" (the await of response.json() in     *)
(* handleApiResponse, or at line 199), "done" (returned).                  *)
(*   arg    the role in the request URL (filterUsersByRole), else ""       *)
(*   resp   "none" | "ok" | "nonok" | "threw": what fetch settled with     *)
(*   data   the parsed body the invocation received                        *)
(*   by     the invocation that called it (displayUsers from addUser or    *)
(*          deleteUser), 0 for the mount effect and for clicks             *)
(*   set    whether the invocation has called setUsers                     *)
(*   base   the number of promises that existed when it mapped its records *)
(*   alert  the text it passed to alert(), "" if none                      *)
(*   log    the text it passed to console.error(), "" if none              *)
(*   err    the error it caught, "" if none                                *)
(***************************************************************************)
Call(fn, arg, by) ==
    [fn |-> fn, pc |-> "fetch", arg |-> arg, resp |-> "none", data |-> Null,
     by |-> by, set |-> FALSE, base |-> 0, alert |-> "", log |-> "", err |-> ""]

\* An invocation that returns at its input check: lines 158-161, 182-185, 208-211.
Rejected(fn, arg, message) ==
    [Call(fn, arg, 0) EXCEPT !.pc = "done", !.alert = message]

\* The catch blocks: lines 150-152, 176-178, 202-204, 227-229.
CatchMessage(fn) ==
    CASE fn = "displayUsers" -> "Error fetching users:"
      [] fn = "addUser" -> "Error adding user:"
      [] fn = "deleteUser" -> "Error deleting user:"
      [] fn = "filterUsersByRole" -> "Error fetching users by role:"

Caught(task, error) ==
    [task EXCEPT !.pc = "done", !.log = CatchMessage(task.fn), !.err = error]

FieldOrder == <<"id", "name", "email", "role">>

\* Lines 142-147 and 219-224: the record the map's callback returns for the
\* i-th input record.  The k-th call of decryptWithPrivateKey made by the map
\* returns promise number base + k.
RecordOfPromises(i, base) ==
    [id    |-> base + 4 * (i - 1) + 1,
     name  |-> base + 4 * (i - 1) + 2,
     email |-> base + 4 * (i - 1) + 3,
     role  |-> base + 4 * (i - 1) + 4]

\* Mutant: the records come out in reverse order.
decryptedUsersReversed(items, base) ==
    [i \in 1..Len(items) |-> RecordOfPromises(Len(items) + 1 - i, base)]

\* Mutant: the collection ends before the first record that has a field
\* whose decryption fails.
decryptedUsersUntilFailure(items, base) ==
    LET bad == {i \in 1..Len(items) :
                    \E f \in Fields : ~(items[i][f].b64 /\ items[i][f].intact)}
        n == IF bad = {} THEN Len(items)
             ELSE (CHOOSE i \in bad : \A j \in bad : i <= j) - 1
    IN  [i \in 1..n |-> RecordOfPromises(i, base)]

\* Lines 141-147 and 218-224: users.map((user) => ({...})): the record at
\* position i holds the promises of input record i.
decryptedUsers(items, base) ==
    [i \in 1..Len(items) |-> RecordOfPromises(i, base)]

\* The promises those calls create, in call order.
DecryptCalls(items, by) ==
    [k \in 1..(4 * Len(items)) |->
        PendingDecryption(items[((k - 1) \div 4) + 1][FieldOrder[((k - 1) % 4) + 1]], by)]

\* A rejected import promise that was rejected when importPrivateKey returned
\* (pemToArrayBuffer threw) resumes decryptWithPrivateKey in a microtask, and
\* microtasks run, in order, before the event loop takes the next event.
ImportIsMicrotask == ~pemToArrayBuffer(privateKeyPEM).ok

NoMicrotask ==
    ~(ImportIsMicrotask /\ \E p \in DOMAIN promises : promises[p].pc = "import")

\* Button clicks so far, and records received so far (the model's budget).
Clicks == Cardinality({t \in DOMAIN tasks : tasks[t].by = 0}) - 1
RecordsSoFar == Len(promises) \div 4

Init ==
    /\ users = <<>>
    /\ newUser = [name |-> "", email |-> "", role |-> ""]
    /\ roleFilter = ""
    /\ deleteUserId = ""
    /\ privateKeyPEM \in KeyConfigs
    \* lines 77-79: the mount effect has called displayUsers
    /\ tasks = <<Call("displayUsers", "", 0)>>
    /\ promises = <<>>
    /\ imports = 0
    /\ setBy = 0

\* Lines 244, 252, 260: the onChange handler of the Name, Email or Role input
\* of the add form, fired when the input's text becomes value:
\* setNewUser({ ...newUser, [field]: value }).
onChangeNewUser(field, value) ==
    /\ NoMicrotask
    /\ newUser[field] # value
    /\ newUser' = [newUser EXCEPT ![field] = value]
    /\ UNCHANGED <<users, roleFilter, deleteUserId, privateKeyPEM, tasks,
                   promises, imports, setBy>>

\* Line 284: the onChange handler of the role filter input.
onChangeRoleFilter(value) ==
    /\ NoMicrotask
    /\ roleFilter # value
    /\ roleFilter' = value
    /\ UNCHANGED <<users, newUser, deleteUserId, privateKeyPEM, tasks,
                   promises, imports, setBy>>

\* Line 308: the onChange handler of the User ID input.
onChangeDeleteUserId(value) ==
    /\ NoMicrotask
    /\ deleteUserId # value
    /\ deleteUserId' = value
    /\ UNCHANGED <<users, newUser, roleFilter, privateKeyPEM, tasks,
                   promises, imports, setBy>>

\* Lines 155-170: Add User is clicked; the handler reads newUser.
addUser ==
    /\ NoMicrotask
    /\ tasks' = Append(tasks,
            IF newUser.name = "" \/ newUser.email = "" \/ newUser.role = ""
            THEN Rejected("addUser", "", "All fields are required")
            ELSE Call("addUser", "", 0))
    /\ UNCHANGED <<users, newUser, roleFilter, deleteUserId, privateKeyPEM,
                   promises, imports, setBy>>

\* Lines 181-193: Delete User is clicked; the handler reads deleteUserId.
deleteUser ==
    /\ NoMicrotask
    /\ tasks' = Append(tasks,
            IF deleteUserId = ""
            THEN Rejected("deleteUser", "", "User ID is required")
            ELSE Call("deleteUser", deleteUserId, 0))
    /\ UNCHANGED <<users, newUser, roleFilter, deleteUserId, privateKeyPEM,
                   promises, imports, setBy>>

\* Lines 207-216: Filter by Role is clicked; the handler reads roleFilter.
filterUsersByRole ==
    /\ NoMicrotask
    /\ tasks' = Append(tasks,
            IF roleFilter = ""
            THEN Rejected("filterUsersByRole", "", "Please specify a role")
            ELSE Call("filterUsersByRole", roleFilter, 0))
    /\ UNCHANGED <<users, newUser, roleFilter, deleteUserId, privateKeyPEM,
                   promises, imports, setBy>>

\* await fetch(...) rejects (lines 137, 164, 188, 214): the catch block logs.
FetchRejects(t) ==
    /\ NoMicrotask
    /\ tasks[t].pc = "fetch"
    /\ tasks' = [tasks EXCEPT ![t] =
            Caught([@ EXCEPT !.resp = "threw"], "TypeError: Failed to fetch")]
    /\ UNCHANGED <<users, newUser, roleFilter, deleteUserId, privateKeyPEM,
                   promises, imports, setBy>>

\* await fetch(...) resolves with a response whose ok flag is ok.  deleteUser
\* with an ok response (lines 195-197) alerts and calls displayUsers; every
\* other case goes on to read the body (line 83, 85 or 199).
FetchResponds(t, ok) ==
    /\ NoMicrotask
    /\ tasks[t].pc = "fetch"
    /\ tasks' =
        IF tasks[t].fn = "deleteUser" /\ ok
        THEN Append([tasks EXCEPT ![t] =
                        [@ EXCEPT !.pc = "done", !.resp = "ok",
                                  !.alert = "User deleted successfully"]],
                    Call("displayUsers", "", t))
        ELSE [tasks EXCEPT ![t] =
                [@ EXCEPT !.pc = "json", !.resp = IF ok THEN "ok" ELSE "nonok"]]
    /\ UNCHANGED <<users, newUser, roleFilter, deleteUserId, privateKeyPEM,
                   promises, imports, setBy>>

\* response.json() rejects (the body is not JSON): handleApiResponse rejects,
\* or line 199 throws; the handler's catch block logs.
JsonRejects(t) ==
    /\ NoMicrotask
    /\ tasks[t].pc = "json"
    /\ tasks' = [tasks EXCEPT ![t] = Caught(@, "SyntaxError: response.json()")]
    /\ UNCHANGED <<users, newUser, roleFilter, deleteUserId, privateKeyPEM,
                   promises, imports, setBy>>

\* Mutant: the body is returned whatever the status of the response.
handleApiResponseAnyStatus(ok, body) ==
    [ok |-> TRUE, v |-> body, err |-> "", alert |-> ""]

\* Lines 81-88, from the moment response.json() has resolved with body: an ok
\* response returns the body; otherwise errorData.message is read (a
\* TypeError when the body is null), alert is called and an Error is thrown.
handleApiResponse(ok, body) ==
    IF ok THEN [ok |-> TRUE, v |-> body, err |-> "", alert |-> ""]
    ELSE IF body.kind = "null"
         THEN [ok |-> FALSE, v |-> body, alert |-> "",
               err |-> "TypeError: reading 'message' of null"]
    ELSE [ok |-> FALSE, v |-> body, alert |-> "Error: message",
          err |-> "Error: message"]

\* The body of the response to displayUsers or filterUsersByRole is read
\* (lines 138-149, 217-226).  If handleApiResponse returns an array, the
\* records are mapped to records of decryption promises and setUsers is called
\* with them, all in one turn; a body that is no array makes users.map throw a
\* TypeError; every throw ends in the catch block.
ShowUsers(t, data) ==
    /\ NoMicrotask
    /\ tasks[t].pc = "json"
    /\ tasks[t].fn \in {"displayUsers", "filterUsersByRole"}
    /\ LET r == handleApiResponse(tasks[t].resp = "ok", data)
       IN  IF r.ok /\ r.v.kind = "array"
           THEN /\ promises' = promises \o DecryptCalls(r.v.items, t)
                /\ imports' = imports + 4 * Len(r.v.items)
                /\ users' = decryptedUsers(r.v.items, Len(promises))
                /\ setBy' = t
                /\ tasks' = [tasks EXCEPT ![t] =
                        [@ EXCEPT !.pc = "done", !.data = r.v, !.set = TRUE,
                                  !.base = Len(promises)]]
           ELSE /\ tasks' = [tasks EXCEPT ![t] =
                        Caught([@ EXCEPT !.alert = r.alert],
                               IF r.ok THEN "TypeError: users.map" ELSE r.err)]
                /\ UNCHANGED <<users, promises, imports, setBy>>
    /\ UNCHANGED <<newUser, roleFilter, deleteUserId, privateKeyPEM>>

\* Mutant: a successful add does not refresh the list.
UserAddedNoRefresh(t, data) ==
    /\ NoMicrotask
    /\ tasks[t].pc = "json"
    /\ tasks[t].fn = "addUser"
    /\ tasks[t].resp = "ok"
    /\ data.kind # "null"
    /\ tasks' = [tasks EXCEPT ![t] =
                    [@ EXCEPT !.pc = "done", !.alert = "User added"]]
    /\ newUser' = [name |-> "", email |-> "", role |-> ""]
    /\ UNCHANGED <<users, roleFilter, deleteUserId, privateKeyPEM, promises,
                   imports, setBy>>

\* The body of the response to addUser is read (lines 172-175): alert, clear
\* the form, call displayUsers.  A null body makes data.name throw a
\* TypeError; every throw ends in the catch block.
UserAdded(t, data) ==
    /\ NoMicrotask
    /\ tasks[t].pc = "json"
    /\ tasks[t].fn = "addUser"
    /\ LET r == handleApiResponse(tasks[t].resp = "ok", data)
       IN  IF r.ok /\ r.v.kind # "null"
           THEN /\ tasks' = Append([tasks EXCEPT ![t] =
                                [@ EXCEPT !.pc = "done", !.alert = "User added"]],
                            Call("displayUsers", "", t))
                /\ newUser' = [name |-> "", email |-> "", role |-> ""]
           ELSE /\ tasks' = [tasks EXCEPT ![t] =
                        Caught([@ EXCEPT !.alert = r.alert],
                               IF r.ok THEN "TypeError: reading 'name' of null"
                               ELSE r.err)]
                /\ UNCHANGED newUser
    /\ UNCHANGED <<users, roleFilter, deleteUserId, privateKeyPEM, promises,
                   imports, setBy>>

\* The body of a non-ok response to deleteUser is read (lines 199-200): alert.
\* A null body makes errorData.message throw a TypeError, which is caught.
DeleteFailed(t, errorData) ==
    /\ NoMicrotask
    /\ tasks[t].pc = "json"
    /\ tasks[t].fn = "deleteUser"
    /\ tasks' = [tasks EXCEPT ![t] =
            IF errorData.kind = "null"
            THEN Caught(@, "TypeError: reading 'message' of null")
            ELSE [@ EXCEPT !.pc = "done", !.alert = "Error: message"]]
    /\ UNCHANGED <<users, newUser, roleFilter, deleteUserId, privateKeyPEM,
                   promises, imports, setBy>>

\* The import awaited at line 120 settles.
ImportSettles(p) ==
    /\ promises[p].pc = "import"
    /\ ImportIsMicrotask => \A q \in 1..(p - 1) : promises[q].pc # "import"
    /\ promises' = [promises EXCEPT ![p] = AfterImport(@, privateKeyPEM)]
    /\ UNCHANGED <<users, newUser, roleFilter, deleteUserId, privateKeyPEM,
                   tasks, imports, setBy>>

\* The decryption awaited at line 125 settles.
DecryptSettles(p) ==
    /\ NoMicrotask
    /\ promises[p].pc = "decrypt"
    /\ promises' = [promises EXCEPT ![p] = AfterDecrypt(@, privateKeyPEM)]
    /\ UNCHANGED <<users, newUser, roleFilter, deleteUserId, privateKeyPEM,
                   tasks, imports, setBy>>

\* The budgets that keep a run finite.
MayClick == Clicks < MaxClicks
Fits(data) == RecordsSoFar + Len(data.items) <= MaxRecords
Filters == Cardinality({t \in DOMAIN tasks : tasks[t].fn = "filterUsersByRole"})

Next ==
    \/ \E field \in NewUserFields : \E value \in TextOf(field) :
            onChangeNewUser(field, value)
    \/ \E value \in RoleInputs : onChangeRoleFilter(value)
    \/ \E value \in UserIdInputs : onChangeDeleteUserId(value)
    \/ MayClick /\ addUser
    \/ MayClick /\ deleteUser
    \/ MayClick /\ filterUsersByRole
    \/ \E t \in DOMAIN tasks : FetchRejects(t)
    \/ \E t \in DOMAIN tasks, ok \in BOOLEAN : FetchResponds(t, ok)
    \/ \E t \in DOMAIN tasks : JsonRejects(t)
    \/ \E t \in DOMAIN tasks, data \in JsonValues : Fits(data) /\ ShowUsers(t, data)
    \/ \E t \in DOMAIN tasks, data \in {Object, Null} : UserAdded(t, data)
    \/ \E t \in DOMAIN tasks, errorData \in {Object, Null} : DeleteFailed(t, errorData)
    \/ \E p \in DOMAIN promises : ImportSettles(p)
    \/ \E p \in DOMAIN promises : DecryptSettles(p)

\* The whole component.
Spec == Init /\ [][Next]_vars

\* The list refresh of the mount effect alone, with no button clicked: one
\* response, of any body of Bodies, and the decryptions it starts.
NextDecrypt ==
    \/ \E t \in DOMAIN tasks : FetchRejects(t)
    \/ \E t \in DOMAIN tasks, ok \in BOOLEAN : FetchResponds(t, ok)
    \/ \E t \in DOMAIN tasks : JsonRejects(t)
    \/ \E t \in DOMAIN tasks, data \in JsonValues : ShowUsers(t, data)
    \/ \E p \in DOMAIN promises : ImportSettles(p)
    \/ \E p \in DOMAIN promises : DecryptSettles(p)

SpecDecrypt == Init /\ [][NextDecrypt]_vars

\* A valid key is configured.
InitHandlers == Init /\ privateKeyPEM = "valid"

\* The list and filter requests and the network with a valid key, the
\* decryptions left in flight: no handler reads a decryption's outcome.
NextFetch ==
    \/ \E value \in RoleInputs : onChangeRoleFilter(value)
    \/ MayClick /\ filterUsersByRole
    \/ \E t \in DOMAIN tasks : FetchRejects(t)
    \/ \E t \in DOMAIN tasks, ok \in BOOLEAN : FetchResponds(t, ok)
    \/ \E t \in DOMAIN tasks : JsonRejects(t)
    \/ \E t \in DOMAIN tasks, data \in JsonValues : Fits(data) /\ ShowUsers(t, data)

SpecFetch == InitHandlers /\ [][NextFetch]_vars

\* Adding and deleting users, the refreshes they start and the network, with
\* a valid key.  The list answered to a refresh is empty here: neither handler
\* reads the visible set, and the lists with records are those of SpecDecrypt.
NextMutate ==
    \/ \E field \in NewUserFields : \E value \in TextOf(field) :
            onChangeNewUser(field, value)
    \/ \E value \in UserIdInputs : onChangeDeleteUserId(value)
    \/ MayClick /\ addUser
    \/ MayClick /\ deleteUser
    \/ \E t \in DOMAIN tasks : FetchRejects(t)
    \/ \E t \in DOMAIN tasks, ok \in BOOLEAN : FetchResponds(t, ok)
    \/ \E t \in DOMAIN tasks : JsonRejects(t)
    \/ \E t \in DOMAIN tasks, data \in {Array(<<>>), Object, Null} : ShowUsers(t, data)
    \/ \E t \in DOMAIN tasks, data \in {Object, Null} : UserAdded(t, data)
    \/ \E t \in DOMAIN tasks, errorData \in {Object, Null} : DeleteFailed(t, errorData)

SpecMutate == InitHandlers /\ [][NextMutate]_vars

\* Filter requests racing each other and the mount refresh, with a valid key.
NextRace ==
    \/ \E value \in RoleInputs : onChangeRoleFilter(value)
    \/ Filters < MaxFilters /\ filterUsersByRole
    \/ \E t \in DOMAIN tasks : FetchRejects(t)
    \/ \E t \in DOMAIN tasks, ok \in BOOLEAN : FetchResponds(t, ok)
    \/ \E t \in DOMAIN tasks, data \in JsonValues : Fits(data) /\ ShowUsers(t, data)
    \/ \E p \in DOMAIN promises : ImportSettles(p)
    \/ \E p \in DOMAIN promises : DecryptSettles(p)

SpecRace == InitHandlers /\ [][NextRace]_vars

(***************************************************************************)
(* Properties.                                                             *)
(***************************************************************************)
Pending(p) == promises[p].pc \in {"import", "decrypt"}
DisplayTasks == {t \in DOMAIN tasks :
                    tasks[t].fn \in {"displayUsers", "filterUsersByRole"}}

\* The ciphertexts the visible records were made from, position by position.
ShownSource ==
    [i \in DOMAIN users |->
        [id    |-> promises[users[i].id].ct,
         name  |-> promises[users[i].name].ct,
         email |-> promises[users[i].email].ct,
         role  |-> promises[users[i].role].ct]]

\* A record all of whose fields are base64 of an intact encryption.
Decryptable(record) ==
    \A f \in Fields : record[f].b64 /\ record[f].intact

\* The errors a failing key configuration raises.
KeyError == importPrivateKey(privateKeyPEM).err
Surfaced(error) ==
    \E t \in DOMAIN tasks : tasks[t].err = error /\ tasks[t].log # ""

\* C1: every field of every record of the visible users set holds a resolved
\* plaintext value; no record is shown while a field decryption is pending.
C1_VisibleFieldsResolved ==
    \A i \in DOMAIN users : \A f \in Fields :
        promises[users[i][f]].pc = "fulfilled"

\* C2: once two different filter requests have both completed, the visible
\* users set holds the results of the one issued second.  (If the first had
\* completed before the second was issued, the second's setUsers is the later
\* one; so a violation is a run in which the requests overlapped.)
C2_NewerFilterWins ==
    \A t1 \in DOMAIN tasks : \A t2 \in DOMAIN tasks :
        ( /\ t1 < t2
          /\ tasks[t1].fn = "filterUsersByRole" /\ tasks[t2].fn = "filterUsersByRole"
          /\ tasks[t1].arg # tasks[t2].arg
          /\ tasks[t1].set /\ tasks[t2].set
          /\ setBy \in {t1, t2}
          /\ \A p \in DOMAIN promises : ~Pending(p) )
        => ShownSource = tasks[t2].data.items

\* C3: with a working key, a field whose decryption fails stops no sibling:
\* every record of the collection is in the visible set, and the fields of
\* every decryptable record are pending with their next step enabled, or
\* fulfilled, never rejected or dropped.
C3_SiblingsSurviveFieldFailure ==
    \A t \in DisplayTasks :
        (tasks[t].set /\ setBy = t /\ importPrivateKey(privateKeyPEM).ok) =>
            LET items == tasks[t].data.items
            IN  \A i \in DOMAIN items :
                    Decryptable(items[i]) =>
                        /\ i \in DOMAIN users
                        /\ \A f \in Fields :
                            LET p == users[i][f]
                            IN  /\ p \in DOMAIN promises
                                /\ promises[p].by = t
                                /\ promises[p].ct = items[i][f]
                                /\ promises[p].pc # "rejected"
                                /\ promises[p].pc = "import" => ENABLED ImportSettles(p)
                                /\ promises[p].pc = "decrypt" => ENABLED DecryptSettles(p)

\* A field of one record was rejected for its ciphertext while every field of
\* a sibling record of the same collection is fulfilled.
C3_Witness ==
    \E t \in DisplayTasks :
        /\ tasks[t].set /\ setBy = t /\ importPrivateKey(privateKeyPEM).ok
        /\ \E p \in DOMAIN promises :
                promises[p].by = t /\ promises[p].pc = "rejected"
        /\ \E i \in DOMAIN users :
                /\ Decryptable(tasks[t].data.items[i])
                /\ \A f \in Fields : promises[users[i][f]].pc = "fulfilled"

\* C4: a failed field decryption is reported: some handler has logged or
\* alerted the error of every rejected decryption.
C4_DecryptFailureReported ==
    \A p \in DOMAIN promises :
        promises[p].pc = "rejected" =>
            \E t \in DOMAIN tasks :
                /\ tasks[t].err = promises[p].err
                /\ tasks[t].log # "" \/ tasks[t].alert # ""

\* C5: a key that fails import is imported once and its failure is reported
\* exactly once.
C5_KeyFailureOnce ==
    ~importPrivateKey(privateKeyPEM).ok =>
        /\ imports <= 1
        /\ (\E p \in DOMAIN promises : promises[p].pc = "rejected") =>
                Cardinality({t \in DOMAIN tasks : tasks[t].err = KeyError}) = 1

\* C6: with an absent or malformed PEM, no users set is set unless the
\* configuration error has been surfaced.
C6_MissingKeySurfaced ==
    ~pemToArrayBuffer(privateKeyPEM).ok =>
        \A t \in DOMAIN tasks :
            tasks[t].set => Surfaced(pemToArrayBuffer(privateKeyPEM).err)

\* C7: the collection passed to setUsers has the length of the input
\* collection and its record at position i is made from input record i,
\* whatever the order in which the decryptions complete.
C7_OrderPreserved ==
    \A t \in DisplayTasks :
        (tasks[t].set /\ setBy = t) =>
            /\ Len(users) = Len(tasks[t].data.items)
            /\ \A i \in DOMAIN users : \A f \in Fields :
                    /\ users[i][f] \in DOMAIN promises
                    /\ promises[users[i][f]].by = t
            /\ ShownSource = tasks[t].data.items

\* Two different records are shown; every field of the second is decrypted
\* and no decryption of the first has got past its key import.
C7_Witness ==
    /\ Len(users) = 2
    /\ ShownSource[1] # ShownSource[2]
    /\ \A f \in Fields : promises[users[1][f]].pc = "import"
    /\ \A f \in Fields : promises[users[2][f]].pc = "fulfilled"

\* C8: a ciphertext whose decrypted bytes are not valid UTF-8 settles as an
\* error, never as a string.
C8_NonUtf8IsError ==
    \A p \in DOMAIN promises :
        (promises[p].ct.b64 /\ promises[p].ct.intact
            /\ ~ValidUtf8(promises[p].ct.bytes))
        => promises[p].pc # "fulfilled"

\* C9: displayUsers and filterUsersByRole call setUsers only with the body of
\* an ok response: an invocation whose fetch threw or was answered non-ok has
\* not called setUsers, and every step that changes the visible set is the
\* step in which such an invocation reads the body of an ok response.
C9_SetOnlyAfterOk ==
    /\ [](\A t \in DOMAIN tasks : tasks[t].set =>
                t \in DisplayTasks /\ tasks[t].resp = "ok")
    /\ [][(users' # users \/ setBy' # setBy) =>
            \E t \in DisplayTasks :
                /\ tasks[t].pc = "json" /\ tasks[t].resp = "ok"
                /\ tasks'[t].pc = "done" /\ tasks'[t].set
                /\ setBy' = t]_vars

\* A list or filter request has failed and the set shown by an earlier
\* invocation is still the visible one.
C9_Witness ==
    \E t \in DisplayTasks :
        /\ tasks[t].pc = "done" /\ tasks[t].resp \in {"threw", "nonok"}
        /\ users # <<>> /\ setBy # 0 /\ setBy < t
        /\ ShownSource = tasks[setBy].data.items

Refreshes(t) ==
    {d \in DOMAIN tasks : tasks[d].fn = "displayUsers" /\ tasks[d].by = t}
Mutations == {t \in DOMAIN tasks : tasks[t].fn \in {"addUser", "deleteUser"}}

\* C10 as stated: addUser or deleteUser starts one refresh if and only if the
\* server answered ok.
C10_RefreshIffOk ==
    \A t \in Mutations :
        tasks[t].pc = "done" =>
            Cardinality(Refreshes(t)) = IF tasks[t].resp = "ok" THEN 1 ELSE 0

\* C10 amended: addUser or deleteUser starts exactly one refresh if and only
\* if the server answered ok and, for addUser, the body of the answer was JSON
\* and not null; before it has finished, and in every other case (rejected
\* input with no request sent, non-ok answer, thrown request, unreadable or
\* null body), it starts none; and it never calls setUsers itself.
C10_RefreshIffHandled ==
    \A t \in Mutations :
        /\ ~tasks[t].set /\ setBy # t
        /\ tasks[t].alert \in {"All fields are required", "User ID is required"}
                => tasks[t].resp = "none" /\ tasks[t].pc = "done"
        /\ Cardinality(Refreshes(t)) =
                IF tasks[t].pc = "done" /\ tasks[t].resp = "ok" /\ tasks[t].err = ""
                THEN 1 ELSE 0

\* An addUser answered ok has finished and started its one refresh.
C10_Witness ==
    \E t \in Mutations :
        /\ tasks[t].fn = "addUser" /\ tasks[t].pc = "done"
        /\ tasks[t].resp = "ok" /\ Cardinality(Refreshes(t)) = 1

====
